---------------------------- MODULE Spec2Model ----------------------------
(***************************************************************************)
(* Model of src/app.py: the air-quality dashboard.                         *)
(*                                                                         *)
(* The module-level code loads three CSV files into the shared tables      *)
(* city_day, station_day and risk_scores; the route handler dashboard()    *)
(* filters copies of them by the request's form parameters and computes    *)
(* the values handed to the template.                                      *)
(*                                                                         *)
(* Representation                                                          *)
(*   - a table (DataFrame) is the sequence of its rows, a row a record;    *)
(*   - a nullable cell is <<>> (NaN / NaT) or <<v>>;                       *)
(*   - a date is its day number, 2025-01-01 being day 1;                   *)
(*   - a float computed by mean() is the exact fraction <<num, den>> in    *)
(*     lowest terms, <<>> being NaN;                                       *)
(*   - request.form is a function from the keys present to strings.        *)
(***************************************************************************)
EXTENDS Integers, Sequences, FiniteSets, TLC

VARIABLES
    fs,            \* the CSV files on disk: "missing" or the raw rows
    city_day,      \* module global city_day       (app.py:28, 35)
    station_day,   \* module global station_day    (app.py:29, 37)
    risk_scores,   \* module global risk_scores    (app.py:30)
    loaded,        \* history: the three tables as they were after load
    request,       \* request.form of the last request served
    response,      \* what dashboard() did for it: a bundle or an exception
    locals,        \* dashboard()'s local tables when it returned or raised
    memo           \* history: one earlier request with its response

vars == <<fs, city_day, station_day, risk_scores, loaded, request, response, locals, memo>>

---------------------------------------------------------------------------
(* Bounds of the model.                                                    *)

\* rows of city_day.csv in the general specification
MaxRows == 2
\* rows of station_day.csv in the general specification
MaxStationRows == 1
\* rows of city_risk_scores.csv in the risk specification
MaxRiskRows == 2
\* rows of city_day.csv in the date-range specification
MaxRangeRows == 2
\* rows of city_day.csv in the frame specification
MaxFrameRows == 1
\* the trend tables hold TrendWindow - TrendSlack .. TrendWindow + TrendSlack
\* rows of one city
TrendSlack == 2
\* null-AQI rows in a trend table
MaxTrendNulls == 1

(* Program constants.                                                      *)

\* .tail(30)
TrendWindow == 30
\* pd.Timestamp("2025-01-01") as a day number
FallbackStart == 1
\* pd.Timestamp("2025-12-31") as a day number
FallbackEnd == 365
\* risk tier thresholds of the Policy lambda
SevereAbove == 300
HighAbove == 200
ModerateAbove == 150
\* the colour scale's factor
ColorScale == 255
\* round(..., 2)
AvgDecimals == 2

---------------------------------------------------------------------------
(* Generic helpers.                                                        *)

Min(a, b) == IF a <= b THEN a ELSE b

Range(s) == { s[i] : i \in DOMAIN s }

RECURSIVE SeqsUpTo(_, _)
\* all sequences over S of length 0..n
SeqsUpTo(S, n) ==
    IF n = 0 THEN { <<>> }
    ELSE LET shorter == SeqsUpTo(S, n - 1)
         IN  shorter \cup { Append(s, x) : s \in { t \in shorter : Len(t) = n - 1 }, x \in S }

RECURSIVE Gcd(_, _)
Gcd(a, b) == IF b = 0 THEN a ELSE Gcd(b, a % b)

\* the float n/d (d > 0, n >= 0) as a fraction in lowest terms
Frac(n, d) == LET g == Gcd(n, d) IN <<n \div g, d \div g>>

NaN == <<>>
NaT == <<>>
IsNull(c) == c = <<>>

\* a < b on non-NaN fractions
FracLess(a, b) == a[1] * b[2] < b[1] * a[2]

\* s sorted so that s[i] comes before s[j] whenever <<i, j>> is in before,
\* rows that neither precede the other keeping their original order (pandas
\* sorts with numpy's default kind, which on the short arrays of this model is
\* an insertion sort; on longer ones the keys of this model are distinct)
StableSort(s, before) ==
    LET ranked == { << 1 + Cardinality({ j \in DOMAIN s :
                            \/ <<j, i>> \in before
                            \/ (<<i, j>> \notin before /\ j < i) }), i >> : i \in DOMAIN s }
    IN  [k \in 1..Len(s) |-> s[(CHOOSE p \in ranked : p[1] = k)[2]]]

\* the pairs of indices of s
IndexPairs(s) == (DOMAIN s) \X (DOMAIN s)

---------------------------------------------------------------------------
(* Dates and their strings.                                                *)

MonthLengths == <<31, 28, 31, 30, 31, 30, 31, 31, 30, 31, 30, 31>>

RECURSIVE MonthDay(_, _)
\* <<month, day of month>> of day d counted from the first day of month m
MonthDay(d, m) ==
    IF d <= MonthLengths[m] THEN <<m, d>> ELSE MonthDay(d - MonthLengths[m], m + 1)

Pad2(n) == IF n < 10 THEN "0" \o ToString(n) ELSE ToString(n)

\* Timestamp.strftime('%Y-%m-%d') of day d of 2025
Strftime(d) ==
    LET md == MonthDay(d, 1) IN "2025-" \o Pad2(md[1]) \o "-" \o Pad2(md[2])

\* the ISO strings of the days of 2025
IsoTable == [d \in FallbackStart..FallbackEnd |-> Strftime(d)]

IsoStrings == Range(IsoTable)

\* strings pandas reads as a missing date
NatStrings == {"", "NaT", "nan"}

\* pd.to_datetime(s) of one string: <<"ok", timestamp>>, or <<"raise">> for a
\* string that is no date
ToDatetime(s) ==
    IF s \in NatStrings THEN <<"ok", NaT>>
    ELSE IF s \in IsoStrings
         THEN <<"ok", <<CHOOSE d \in DOMAIN IsoTable : IsoTable[d] = s>> >>
         ELSE <<"raise">>

\* pd.to_datetime(column, errors='coerce') of one cell
ToDatetimeCoerce(s) ==
    LET r == ToDatetime(s) IN IF r[1] = "ok" THEN r[2] ELSE NaT

---------------------------------------------------------------------------
(* Loading (app.py:17-37).                                                 *)

CITY_DAY_CSV == "city_day.csv"
STATION_DAY_CSV == "station_day.csv"
CITY_RISK_SCORES_CSV == "city_risk_scores.csv"

MissingFile == [exists |-> FALSE, rows |-> <<>>]
FileOf(rows) == [exists |-> TRUE, rows |-> rows]

Renamed(c, rename_map) == IF c \in DOMAIN rename_map THEN rename_map[c] ELSE c

\* DataFrame.rename(columns=rename_map) on one row
RenameRow(row, rename_map) ==
    [c \in { Renamed(k, rename_map) : k \in DOMAIN row } |->
        row[CHOOSE k \in DOMAIN row : Renamed(k, rename_map) = c]]

\* load_csv_safe: a missing file is an empty DataFrame
load_csv_safe(files, path, rename_map) ==
    IF ~files[path].exists THEN <<>>
    ELSE [i \in 1..Len(files[path].rows) |-> RenameRow(files[path].rows[i], rename_map)]

\* df['date'] = pd.to_datetime(df['date'], errors='coerce'), skipped on an
\* empty frame
ConvertDates(df) ==
    IF df = <<>> THEN df
    ELSE [i \in 1..Len(df) |-> [df[i] EXCEPT !.date = ToDatetimeCoerce(@)]]

LoadCityDay(files) ==
    ConvertDates(load_csv_safe(files, CITY_DAY_CSV,
                               [City |-> "city", Date |-> "date", AQI |-> "aqi"]))

LoadStationDay(files) ==
    ConvertDates(load_csv_safe(files, STATION_DAY_CSV,
                               [StationId |-> "station", Date |-> "date", AQI |-> "aqi"]))

LoadRiskScores(files) ==
    load_csv_safe(files, CITY_RISK_SCORES_CSV,
                  [LinearRegression_risk_score |-> "linearregression_risk_score"])

---------------------------------------------------------------------------
(* Column helpers.                                                         *)

\* the names in ascending order, as groupby(sort=True) and sorted() order them
CityOrder == <<"A", "B">>
StationOrder == <<"S1", "S2">>

\* the non-null cells of column aqi
NonNullAqi(df) ==
    LET kept == SelectSeq(df, LAMBDA r : ~IsNull(r.aqi))
    IN  [i \in 1..Len(kept) |-> kept[i].aqi[1]]

RECURSIVE SumSeq(_)
SumSeq(s) == IF s = <<>> THEN 0 ELSE s[1] + SumSeq(Tail(s))

\* Series.mean(): NaN cells are skipped, the mean of none is NaN
SeriesMean(df) ==
    LET v == NonNullAqi(df)
    IN  IF v = <<>> THEN NaN ELSE Frac(SumSeq(v), Len(v))

\* Series.count(): the non-null cells
SeriesCount(df) == Len(NonNullAqi(df))

\* Series.nunique() of a column without nulls
NUnique(df, col) == Cardinality({ df[i][col] : i \in DOMAIN df })

\* Series.min() / max() of column date: NaT cells are skipped
DateMin(df) ==
    LET ds == { df[i].date[1] : i \in { j \in DOMAIN df : ~IsNull(df[j].date) } }
    IN  IF ds = {} THEN NaT ELSE <<CHOOSE d \in ds : \A e \in ds : d <= e>>

DateMax(df) ==
    LET ds == { df[i].date[1] : i \in { j \in DOMAIN df : ~IsNull(df[j].date) } }
    IN  IF ds = {} THEN NaT ELSE <<CHOOSE d \in ds : \A e \in ds : d >= e>>

RECURSIVE Pow10(_)
Pow10(k) == IF k = 0 THEN 1 ELSE 10 * Pow10(k - 1)

\* round(x, decimals) of a float: to the nearest multiple of 10^-decimals,
\* a tie to the even one; round(nan) is nan
Round(x, decimals) ==
    IF IsNull(x) THEN NaN
    ELSE LET scaled == x[1] * Pow10(decimals)
             q == scaled \div x[2]
             r == scaled % x[2]
             up == \/ 2 * r > x[2]
                   \/ (2 * r = x[2] /\ q % 2 = 1)
         IN  Frac(IF up THEN q + 1 ELSE q, Pow10(decimals))

\* groupby(key)["aqi"].mean(): one <<key, mean>> per key present, keys ascending
GroupMeans(df, col, order) ==
    LET keys == SelectSeq(order, LAMBDA k : \E i \in DOMAIN df : df[i][col] = k)
    IN  [i \in 1..Len(keys) |->
            <<keys[i], SeriesMean(SelectSeq(df, LAMBDA r : r[col] = keys[i]))>>]

\* Series.idxmax(): the first key holding the largest non-NaN mean; <<>> when
\* every mean is NaN (pandas before 3.0 returns NaN there; pandas 3.0 raises
\* ValueError, which is also how the heatmap ends on that table)
IdxMax(groups) ==
    LET ok == { i \in DOMAIN groups : ~IsNull(groups[i][2]) }
    IN  IF ok = {} THEN <<>>
        ELSE LET best == CHOOSE i \in ok :
                            /\ \A j \in ok : ~FracLess(groups[i][2], groups[j][2])
                            /\ \A j \in ok : j < i => FracLess(groups[j][2], groups[i][2])
             IN  <<groups[best][1]>>

\* DataFrame.tail(n)
TailRows(df, n) == SubSeq(df, Len(df) - Min(n, Len(df)) + 1, Len(df))

\* DataFrame.dropna(subset=['aqi'])
DropNaAqi(df) == SelectSeq(df, LAMBDA r : ~IsNull(r.aqi))

\* DataFrame.sort_values('date') on rows whose dates are not NaT
SortByDate(df) ==
    StableSort(df, { p \in IndexPairs(df) : df[p[1]].date[1] < df[p[2]].date[1] })

\* sort_values(..., ascending=False) of <<key, mean>> rows: NaN means last
SortByMeanDesc(groups) ==
    StableSort(groups, { p \in IndexPairs(groups) :
        /\ ~IsNull(groups[p[1]][2])
        /\ (IsNull(groups[p[2]][2]) \/ FracLess(groups[p[2]][2], groups[p[1]][2])) })

RECURSIVE PyMaxFrom(_, _)
\* Python's max(): keeps the first element unless a later one compares greater;
\* every comparison with nan is False
PyMaxFrom(m, rest) ==
    IF rest = <<>> THEN m
    ELSE PyMaxFrom(IF ~IsNull(rest[1]) /\ ~IsNull(m) /\ FracLess(m, rest[1])
                   THEN rest[1] ELSE m,
                   Tail(rest))

PyMax(values) == PyMaxFrom(values[1], Tail(values))

---------------------------------------------------------------------------
(* dashboard() (app.py:41-127), one statement group at a time.             *)

\* request.form.get(key, default) for a key that is present
HasKey(form, key) == key \in DOMAIN form

\* line 44
SelectedCity(form) == IF HasKey(form, "city") THEN form["city"] ELSE "All"

\* lines 42, 43: the defaults
DefaultStart(cd) == IF cd # <<>> THEN DateMin(cd) ELSE <<FallbackStart>>
DefaultEnd(cd) == IF cd # <<>> THEN DateMax(cd) ELSE <<FallbackEnd>>

\* pd.to_datetime(start_date): of the form's string, or of the default Timestamp
StartTimestamp(form, cd) ==
    IF HasKey(form, "start_date") THEN ToDatetime(form["start_date"])
    ELSE <<"ok", DefaultStart(cd)>>

EndTimestamp(form, cd) ==
    IF HasKey(form, "end_date") THEN ToDatetime(form["end_date"])
    ELSE <<"ok", DefaultEnd(cd)>>

\* start_date and end_date as handed back to the template: the form's string
\* or the default Timestamp
EchoStart(form, cd) ==
    IF HasKey(form, "start_date") THEN [str |-> form["start_date"]]
    ELSE [ts |-> DefaultStart(cd)]

EchoEnd(form, cd) ==
    IF HasKey(form, "end_date") THEN [str |-> form["end_date"]]
    ELSE [ts |-> DefaultEnd(cd)]

\* InRange without its upper bound
InRangeNoUpper(date, start, end) ==
    /\ ~IsNull(date) /\ ~IsNull(start) /\ ~IsNull(end)
    /\ date[1] >= start[1]

\* (df['date'] >= start) & (df['date'] <= end): a comparison with NaT is False
InRange(date, start, end) ==
    /\ ~IsNull(date) /\ ~IsNull(start) /\ ~IsNull(end)
    /\ date[1] >= start[1]
    /\ date[1] <= end[1]

\* lines 53-54 and 59-60
DateFilter(df, start, end) == SelectSeq(df, LAMBDA r : InRange(r.date, start, end))

\* line 52
CityFilter(df, selected_city) ==
    IF selected_city # "All" THEN SelectSeq(df, LAMBDA r : r.city = selected_city)
    ELSE df

\* lines 49-54; the caller has checked that the dates parse
FilterCityDay(cd, selected_city, start, end) ==
    IF cd # <<>> THEN DateFilter(CityFilter(cd, selected_city), start, end) ELSE cd

\* lines 57-60
FilterStationDay(sd, start, end) ==
    IF sd # <<>> THEN DateFilter(sd, start, end) ELSE sd

\* line 65
AvgAqi(fcd) == IF fcd # <<>> THEN Round(SeriesMean(fcd), AvgDecimals) ELSE Frac(0, 1)

\* line 69
TopCity(fcd) == IdxMax(GroupMeans(fcd, "city", CityOrder))

\* lines 70-71: the rows of the top city, by date, the last 30 of them, and of
\* those the ones with an AQI
TrendsDf(fcd) ==
    LET top == TopCity(fcd)
        rows == SelectSeq(fcd, LAMBDA r : ~IsNull(top) /\ r.city = top[1])
    IN  DropNaAqi(TailRows(SortByDate(rows), TrendWindow))

\* lines 72-73
TrendDates(fcd) ==
    LET df == TrendsDf(fcd) IN [i \in 1..Len(df) |-> Strftime(df[i].date[1])]

TrendValues(fcd) ==
    LET df == TrendsDf(fcd) IN [i \in 1..Len(df) |-> df[i].aqi[1]]

\* line 79
HeatmapDf(fcd) == SortByMeanDesc(GroupMeans(fcd, "city", CityOrder))

\* line 82
MaxAqi(heatmap_values) ==
    IF heatmap_values # <<>> THEN PyMax(heatmap_values) ELSE Frac(1, 1)

\* int(x) of the float n/d >= 0
PyInt(n, d) == n \div d

Rgba(r, g, b, a) == [r |-> r, g |-> g, b |-> b, a |-> a]

\* line 83, one element: val and max_aqi are numbers and max_aqi is not 0.
\* (The quotients are taken exactly; the floats of the code can differ from
\* them by one unit in the last place.)
HeatColor(val, max_aqi) ==
    LET n == val[1] * max_aqi[2]
        d == val[2] * max_aqi[1]
    IN  Rgba(PyInt(n * ColorScale, d), PyInt((d - n) * ColorScale, d), 0, "0.8")

\* line 83: what evaluating the list comprehension raises, "" if nothing.
\* Python's float division raises on a zero divisor whatever the dividend, and
\* int(nan) raises ValueError
HeatColorsRaise(heatmap_values) ==
    LET max_aqi == MaxAqi(heatmap_values)
    IN  IF heatmap_values = <<>> THEN ""
        ELSE IF ~IsNull(max_aqi) /\ max_aqi[1] = 0 THEN "ZeroDivisionError"
        ELSE IF \E i \in DOMAIN heatmap_values : IsNull(heatmap_values[i])
             THEN "ValueError"
        ELSE ""

\* lines 89-91
StationsDf(fsd) == GroupMeans(fsd, "station", StationOrder)

\* Policy with every comparison inclusive
PolicyInclusive(x) ==
    IF x >= SevereAbove THEN "Severe"
    ELSE IF x >= HighAbove THEN "High"
    ELSE IF x >= ModerateAbove THEN "Moderate"
    ELSE "Low"

\* Policy with the two upper tiers merged below the Severe threshold
PolicyHighFrom150(x) ==
    IF x > SevereAbove THEN "Severe"
    ELSE IF x > ModerateAbove THEN "High"
    ELSE "Low"

\* line 98: the lambda
Policy(x) ==
    IF x > SevereAbove THEN "Severe"
    ELSE IF x > HighAbove THEN "High"
    ELSE IF x > ModerateAbove THEN "Moderate"
    ELSE "Low"

\* risks_df = risk_scores, without .copy()
RisksDfIsAlias(rs) == TRUE

\* line 97: risks_df names a new frame, not the shared one
RisksDfIsShared(rs) == FALSE

\* line 98: risks_df['Policy'] = ...
WithPolicy(rs) ==
    [i \in 1..Len(rs) |->
        [c \in DOMAIN rs[i] \cup {"Policy"} |->
            IF c = "Policy" THEN Policy(rs[i].linearregression_risk_score)
            ELSE rs[i][c]]]

\* line 99
RisksDf(rs) ==
    StableSort(WithPolicy(rs), { p \in IndexPairs(rs) :
        rs[p[1]].linearregression_risk_score > rs[p[2]].linearregression_risk_score })

\* line 107
CitiesList(cd) ==
    <<"All">> \o SelectSeq(CityOrder, LAMBDA c : \E i \in DOMAIN cd : cd[i].city = c)

---------------------------------------------------------------------------
(* The handler as a whole.                                                 *)

Raised(exc) == [status |-> "raised", exc |-> exc]

NoLocals == [reached |-> FALSE]

\* the bundle render_template receives (lines 109-127)
Bundle(form, cd, fcd, fsd, rs) ==
    LET heatmap_df == HeatmapDf(fcd)
        heatmap_values == [i \in 1..Len(heatmap_df) |-> heatmap_df[i][2]]
        max_aqi == MaxAqi(heatmap_values)
        stations_df == StationsDf(fsd)
        risks_df == RisksDf(rs)
    IN  [status          |-> "ok",
         num_cities      |-> IF fcd # <<>> THEN NUnique(fcd, "city") ELSE 0,
         num_stations    |-> IF fsd # <<>> THEN NUnique(fsd, "station") ELSE 0,
         avg_aqi         |-> AvgAqi(fcd),
         trend_dates     |-> IF fcd # <<>> THEN TrendDates(fcd) ELSE <<>>,
         trend_values    |-> IF fcd # <<>> THEN TrendValues(fcd) ELSE <<>>,
         heatmap_cities  |-> [i \in 1..Len(heatmap_df) |-> heatmap_df[i][1]],
         heatmap_values  |-> heatmap_values,
         heatmap_colors  |-> [i \in 1..Len(heatmap_df) |->
                                 HeatColor(heatmap_values[i], max_aqi)],
         stations_names  |-> [i \in 1..Len(stations_df) |-> stations_df[i][1]],
         stations_avg    |-> [i \in 1..Len(stations_df) |-> stations_df[i][2]],
         risks_list      |-> [i \in 1..Len(risks_df) |->
                                 <<risks_df[i].city, risks_df[i].Policy>>],
         risks_names     |-> [i \in 1..Len(risks_df) |-> risks_df[i].city],
         risks_values    |-> [i \in 1..Len(risks_df) |->
                                 risks_df[i].linearregression_risk_score],
         cities_list     |-> CitiesList(cd),
         selected_city   |-> SelectedCity(form),
         start_date      |-> EchoStart(form, cd),
         end_date        |-> EchoEnd(form, cd)]

\* dashboard(): <<response, locals>>.  The dates are parsed where a non-empty
\* table is filtered (lines 53-54, 59-60) and nowhere else; a string that is no
\* date raises there (a ValueError subclass).  The heatmap colours raise on a
\* NaN mean or a zero maximum (line 83).
dashboard(form, cd, sd, rs) ==
    LET start == StartTimestamp(form, cd)
        end == EndTimestamp(form, cd)
        parses == start[1] = "ok" /\ end[1] = "ok"
    IN  IF (cd # <<>> \/ sd # <<>>) /\ ~parses
        THEN <<Raised("ValueError"), NoLocals>>
        ELSE LET fcd == IF cd # <<>>
                        THEN FilterCityDay(cd, SelectedCity(form), start[2], end[2])
                        ELSE cd
                 fsd == IF sd # <<>> THEN FilterStationDay(sd, start[2], end[2]) ELSE sd
                 frame == [reached |-> TRUE,
                           filtered_city_day |-> fcd,
                           filtered_station_day |-> fsd,
                           avg_aqi |-> AvgAqi(fcd)]
                 heat == IF fcd # <<>>
                         THEN LET h == HeatmapDf(fcd)
                              IN  HeatColorsRaise([i \in 1..Len(h) |-> h[i][2]])
                         ELSE ""
             IN  IF heat # "" THEN <<Raised(heat), frame>>
                 ELSE <<Bundle(form, cd, fcd, fsd, rs), frame>>

\* what the request leaves in the shared risk_scores: line 98 writes the
\* Policy column into the frame risks_df names
RiskScoresAfter(rs) ==
    IF rs # <<>> /\ RisksDfIsShared(rs) THEN WithPolicy(rs) ELSE rs

---------------------------------------------------------------------------
(* Inputs.                                                                 *)

Cities == Range(CityOrder)
Stations == Range(StationOrder)

Day1 == Strftime(1)
Day2 == Strftime(2)

\* the Date cells of the CSV files: two days and a cell that is no date
RawDates == {Day1, Day2, "bad"}

AqiCells == {<<>>, <<0>>, <<50>>, <<101>>}

CityRows == [City : Cities, Date : RawDates, AQI : AqiCells]

StationRows == [StationId : Stations, Date : {Day1, Day2}, AQI : {<<>>, <<50>>}]

\* one of the values of a key of the form, or the key left out
FormPart(key, values) ==
    { [k \in {} |-> ""] } \cup { [k \in {key} |-> v] : v \in values }

FormsOver(cities, dates) ==
    { c @@ s @@ e : c \in FormPart("city", cities),
                    s \in FormPart("start_date", dates),
                    e \in FormPart("end_date", dates) }

Forms == FormsOver({"A"}, {"", "garbage", Day1, Day2})

SampleRiskFile ==
    FileOf(<< [city |-> "A", LinearRegression_risk_score |-> 250],
              [city |-> "B", LinearRegression_risk_score |-> 350] >>)

---------------------------------------------------------------------------
(* The state machine.                                                      *)

Idle == [status |-> "idle"]

NoMemo == [set |-> FALSE]

\* the module-level code has run on the files given
InitWith(cityFiles, stationFiles, riskFiles) ==
    /\ fs \in [{CITY_DAY_CSV} -> cityFiles] \X [{STATION_DAY_CSV} -> stationFiles]
              \X [{CITY_RISK_SCORES_CSV} -> riskFiles]
    /\ city_day = LoadCityDay(fs[1])
    /\ station_day = LoadStationDay(fs[2])
    /\ risk_scores = LoadRiskScores(fs[3])
    /\ loaded = <<city_day, station_day, risk_scores>>
    /\ request = <<>>
    /\ response = Idle
    /\ locals = NoLocals
    /\ memo = NoMemo

\* dashboard() runs on one request, from its first line to its return or raise
Dashboard(form) ==
    LET out == dashboard(form, city_day, station_day, risk_scores)
    IN  /\ response = Idle
        /\ request' = form
        /\ response' = out[1]
        /\ locals' = out[2]
        /\ risk_scores' = IF out[1].status = "ok" THEN RiskScoresAfter(risk_scores)
                          ELSE risk_scores
        /\ UNCHANGED <<fs, city_day, station_day, loaded>>

Serve == \E form \in Forms : Dashboard(form) /\ UNCHANGED memo

\* the response has gone to the client (a page, or the server's error page);
\* the worker waits for the next request
Reply ==
    /\ response # Idle
    /\ request' = <<>>
    /\ response' = Idle
    /\ locals' = NoLocals
    /\ UNCHANGED <<fs, city_day, station_day, risk_scores, loaded, memo>>

Init ==
    InitWith({MissingFile} \cup { FileOf(rows) : rows \in SeqsUpTo(CityRows, MaxRows) },
             {MissingFile} \cup { FileOf(rows) : rows \in SeqsUpTo(StationRows, MaxStationRows) },
             {SampleRiskFile})

Next == Serve \/ Reply

Spec == Init /\ [][Next]_vars

---------------------------------------------------------------------------
(* The date-range specification: tables over two days and a bad date cell, *)
(* requests over three days.                                               *)

Day3 == Strftime(3)

RangeCityRows == [City : Cities, Date : RawDates, AQI : {<<>>, <<101>>}]

RangeStationRows ==
    { [StationId |-> "S1", Date |-> Day1, AQI |-> <<50>>],
      [StationId |-> "S2", Date |-> Day2, AQI |-> <<50>>] }

RangeForms == FormsOver({"A"}, {Day1, Day2, Day3})

ServeRange == \E form \in RangeForms : Dashboard(form) /\ UNCHANGED memo

InitRange ==
    InitWith({MissingFile} \cup { FileOf(rows) : rows \in SeqsUpTo(RangeCityRows, MaxRangeRows) },
             {MissingFile} \cup { FileOf(rows) : rows \in SeqsUpTo(RangeStationRows, MaxStationRows) },
             {SampleRiskFile})

NextRange == ServeRange \/ Reply

SpecRange == InitRange /\ [][NextRange]_vars

---------------------------------------------------------------------------
(* The risk specification: risk-score files over the thresholds, their     *)
(* neighbours and the sample scores.                                       *)

Scores == {100, 150, 151, 175, 200, 250, 300, 301, 350}

RiskRows == [city : Cities, LinearRegression_risk_score : Scores]

SampleCityFile ==
    FileOf(<< [City |-> "A", Date |-> Day1, AQI |-> <<101>>],
              [City |-> "B", Date |-> Day2, AQI |-> <<50>>] >>)

RiskForms == FormsOver({"A"}, {Day1, Day2})

ServeRisk == \E form \in RiskForms : Dashboard(form) /\ UNCHANGED memo

InitRisk ==
    InitWith({SampleCityFile},
             {MissingFile},
             {MissingFile} \cup { FileOf(rows) : rows \in SeqsUpTo(RiskRows, MaxRiskRows) })

NextRisk == ServeRisk \/ Reply

SpecRisk == InitRisk /\ [][NextRisk]_vars

---------------------------------------------------------------------------
(* The trend specification: one city with about TrendWindow rows.          *)

RECURSIVE SubsetsUpTo(_, _)
\* the subsets of S with at most k elements
SubsetsUpTo(S, k) ==
    IF k = 0 THEN { {} }
    ELSE LET smaller == SubsetsUpTo(S, k - 1)
         IN  smaller \cup { s \cup {x} : s \in smaller, x \in S }

\* n rows of city A, one per day 1..n, in ascending or descending file order;
\* the AQI of day d is 100 + d, or missing on the days in nulls
TrendRows(n, nulls, descending) ==
    [i \in 1..n |->
        LET d == IF descending THEN n + 1 - i ELSE i
        IN  [City |-> "A", Date |-> Strftime(d),
             AQI |-> IF d \in nulls THEN <<>> ELSE <<100 + d>>]]

TrendFiles ==
    { FileOf(TrendRows(n, nulls, desc) \o extra) :
        n \in (TrendWindow - TrendSlack)..(TrendWindow + TrendSlack),
        nulls \in SubsetsUpTo(1..(TrendWindow + TrendSlack), MaxTrendNulls),
        desc \in BOOLEAN,
        extra \in { <<>>, << [City |-> "B", Date |-> Day1, AQI |-> <<50>>] >> } }

\* requests that cut the first day or the days after the TrendWindow-th off
TrendForms == FormsOver({"A"}, {Day2, Strftime(TrendWindow)})

ServeTrend == \E form \in TrendForms : Dashboard(form) /\ UNCHANGED memo

InitTrend == InitWith(TrendFiles, {MissingFile}, {SampleRiskFile})

NextTrend == ServeTrend \/ Reply

SpecTrend == InitTrend /\ [][NextTrend]_vars

---------------------------------------------------------------------------
(* The frame specification: requests one after another, one of them        *)
(* remembered with its response.                                           *)

FrameForms == FormsOver({"A"}, {Day2})

\* a request served and remembered
ServeRemember ==
    \E form \in FrameForms :
        /\ Dashboard(form)
        /\ memo' = [set |-> TRUE, request |-> form, response |-> response',
                    between |-> FALSE]

\* a request served; it comes between the remembered one and a later one
ServeFrame ==
    \E form \in FrameForms :
        /\ Dashboard(form)
        /\ memo' = IF memo.set /\ form # memo.request
                   THEN [memo EXCEPT !.between = TRUE] ELSE memo

FrameCityRows == [City : Cities, Date : {Day1, Day2}, AQI : {<<>>, <<50>>, <<101>>}]

SampleStationFile ==
    FileOf(<< [StationId |-> "S2", Date |-> Day2, AQI |-> <<50>>],
              [StationId |-> "S1", Date |-> Day1, AQI |-> <<>>] >>)

InitFrame ==
    InitWith({MissingFile} \cup { FileOf(rows) : rows \in SeqsUpTo(FrameCityRows, MaxFrameRows) },
             {MissingFile, SampleStationFile},
             {MissingFile, SampleRiskFile})

NextFrame == ServeFrame \/ ServeRemember \/ Reply

SpecFrame == InitFrame /\ [][NextFrame]_vars

---------------------------------------------------------------------------
(* Claims.                                                                 *)

Served == response # Idle

Ok == response.status = "ok"

\* n/d to the nearest integer, a tie to the even one
RoundDiv(n, d) ==
    LET q == n \div d
        r == n % d
    IN  IF 2 * r > d \/ (2 * r = d /\ q % 2 = 1) THEN q + 1 ELSE q

\* the rows of the top city of a filtered table with their null-AQI rows
\* dropped first, then sorted by date, then cut to the last TrendWindow
TrendByNullsFirst(fcd) ==
    LET top == TopCity(fcd)
        rows == SelectSeq(fcd, LAMBDA r : r.city = top[1] /\ ~IsNull(r.aqi))
    IN  TailRows(SortByDate(rows), TrendWindow)

\* C1: when the filtered city-day table is not empty, the trend is the top
\* city's rows without the null-AQI ones, sorted by date, cut to the last 30:
\* min(30, number of non-null rows) entries, the latest-dated ones.
C1_TrendIsLastOfNonNull ==
    (Ok /\ locals.filtered_city_day # <<>>) =>
        LET fcd == locals.filtered_city_day
            want == TrendByNullsFirst(fcd)
            nonnull == SelectSeq(fcd, LAMBDA r : r.city = TopCity(fcd)[1] /\ ~IsNull(r.aqi))
        IN  /\ response.trend_values = [i \in 1..Len(want) |-> want[i].aqi[1]]
            /\ response.trend_dates = [i \in 1..Len(want) |-> Strftime(want[i].date[1])]
            /\ Len(response.trend_values) = Min(TrendWindow, Len(nonnull))

\* the tier of a score as the specification tabulates it
TierOfScore(s) ==
    CASE s > 300 -> "Severe"
      [] s > 200 /\ s <= 300 -> "High"
      [] s > 150 /\ s <= 200 -> "Moderate"
      [] s <= 150 -> "Low"

\* C2: every row of the unfiltered risk-scores table is in risks_list with the
\* tier its score alone decides (> 300 Severe, (200, 300] High, (150, 200]
\* Moderate, <= 150 Low), whatever the request's city and dates.
C2_TierIsFunctionOfScore ==
    Ok =>
        /\ Len(response.risks_list) = Len(loaded[3])
        /\ \A i \in DOMAIN response.risks_list :
              response.risks_list[i][2] = TierOfScore(response.risks_values[i])
        /\ \A j \in DOMAIN loaded[3] :
              \E i \in DOMAIN response.risks_list :
                 /\ response.risks_list[i][1] = loaded[3][j].city
                 /\ response.risks_values[i] = loaded[3][j].linearregression_risk_score
                 /\ response.risks_list[i][2] =
                        TierOfScore(loaded[3][j].linearregression_risk_score)

C2_Witness ==
    /\ Ok
    /\ HasKey(request, "city") /\ HasKey(request, "start_date") /\ HasKey(request, "end_date")
    /\ Len(response.risks_list) = 2
    /\ response.risks_list[1][2] = "Severe"
    /\ response.risks_list[2][2] = "Low"

\* the tier emitted for the rows of score s
TiersOf(s) ==
    { response.risks_list[i][2] :
        i \in { j \in DOMAIN response.risks_list : response.risks_values[j] = s } }

\* C3 as stated: 300 is High and 150 is Moderate; 350, 250, 175 and 100 are
\* Severe, High, Moderate and Low.
C3_BoundariesAsStated ==
    Ok =>
        /\ TiersOf(300) \subseteq {"High"}
        /\ TiersOf(150) \subseteq {"Moderate"}
        /\ TiersOf(350) \subseteq {"Severe"}
        /\ TiersOf(250) \subseteq {"High"}
        /\ TiersOf(175) \subseteq {"Moderate"}
        /\ TiersOf(100) \subseteq {"Low"}

\* C3 as amended: 300 is High (not Severe) and 150 is Low (not Moderate);
\* 350, 250, 175 and 100 are Severe, High, Moderate and Low.
C3_Boundaries ==
    Ok =>
        /\ TiersOf(300) \subseteq {"High"}
        /\ TiersOf(150) \subseteq {"Low"}
        /\ TiersOf(350) \subseteq {"Severe"}
        /\ TiersOf(250) \subseteq {"High"}
        /\ TiersOf(175) \subseteq {"Moderate"}
        /\ TiersOf(100) \subseteq {"Low"}

C3_Witness ==
    /\ Ok
    /\ TiersOf(300) = {"High"}
    /\ TiersOf(150) = {"Low"}

\* the request's dates, taken with the defaults, parse to days with start
\* after end
StartAfterEnd ==
    LET s == StartTimestamp(request, city_day)
        e == EndTimestamp(request, city_day)
    IN  /\ s[1] = "ok" /\ e[1] = "ok"
        /\ ~IsNull(s[2]) /\ ~IsNull(e[2])
        /\ s[2][1] > e[2][1]

\* C4: a request with start_date > end_date ends in a bundle, not an error,
\* with both filtered tables empty, num_cities = num_stations = avg_aqi = 0 and
\* empty trend, heatmap and station arrays, whatever the city and the tables.
C4_ReversedRangeIsEmpty ==
    (Served /\ StartAfterEnd) =>
        /\ Ok
        /\ locals.filtered_city_day = <<>>
        /\ locals.filtered_station_day = <<>>
        /\ response.num_cities = 0
        /\ response.num_stations = 0
        /\ response.avg_aqi = Frac(0, 1)
        /\ response.trend_dates = <<>> /\ response.trend_values = <<>>
        /\ response.heatmap_cities = <<>> /\ response.heatmap_values = <<>>
        /\ response.heatmap_colors = <<>>
        /\ response.stations_names = <<>> /\ response.stations_avg = <<>>

C4_Witness ==
    /\ Served /\ StartAfterEnd
    /\ HasKey(request, "city")
    /\ \E i \in DOMAIN city_day :
          /\ city_day[i].city = request["city"]
          /\ ~IsNull(city_day[i].date)
          /\ city_day[i].date[1] >= StartTimestamp(request, city_day)[2][1]
    /\ \E i \in DOMAIN station_day :
          station_day[i].date[1] >= StartTimestamp(request, city_day)[2][1]

\* C5: when the filtered city-day table is not empty, avg_aqi is a number: the
\* mean of the non-null aqi values to 2 decimals, also when some or all of
\* the rows have a null aqi.
C5_AvgIsRoundedMean ==
    (locals.reached /\ locals.filtered_city_day # <<>>) =>
        LET v == NonNullAqi(locals.filtered_city_day)
        IN  /\ ~IsNull(locals.avg_aqi)
            /\ v # <<>> => locals.avg_aqi = Frac(RoundDiv(100 * SumSeq(v), Len(v)), 100)
            /\ Ok => response.avg_aqi = locals.avg_aqi

\* C6: the three heatmap arrays have one length, the values descend, and the
\* colour of value v is (round(255 v / max), round(255 (1 - v / max)), 0, 0.8).
C6_HeatmapColorsRounded ==
    Ok =>
        LET vals == response.heatmap_values
        IN  /\ Len(response.heatmap_cities) = Len(vals)
            /\ Len(response.heatmap_colors) = Len(vals)
            /\ \A i \in DOMAIN vals : i > 1 => ~FracLess(vals[i - 1], vals[i])
            /\ \A i \in DOMAIN vals :
                  LET n == vals[i][1] * vals[1][2]
                      d == vals[i][2] * vals[1][1]
                  IN  response.heatmap_colors[i] =
                          Rgba(RoundDiv(255 * n, d), RoundDiv(255 * (d - n), d), 0, "0.8")

\* a date parameter is present and is no date string
BadDateParam(form) ==
    \E key \in {"start_date", "end_date"} :
        HasKey(form, key) /\ form[key] \notin IsoStrings

\* C7: a request with a start_date or end_date that is present and is no
\* date string (the empty string too) ends in an error, never in a bundle,
\* whether the tables are empty or not.
C7_BadDateIsRejected ==
    (Served /\ BadDateParam(request)) => response.status = "raised"

\* C8: with station_day.csv missing, every request with well-formed dates
\* returns a bundle with num_stations = 0 and empty station arrays.
C8_MissingStationFileDegrades ==
    (Served /\ ~fs[2][STATION_DAY_CSV].exists /\ ~BadDateParam(request)) =>
        /\ Ok
        /\ response.num_stations = 0
        /\ response.stations_names = <<>>
        /\ response.stations_avg = <<>>

\* some key of the table has rows and none of them has an aqi
HasAllNullGroup(df, col) ==
    \E i \in DOMAIN df : \A j \in DOMAIN df : df[j][col] = df[i][col] => IsNull(df[j].aqi)

\* C9: when a city or a station of the filtered tables has only null aqi
\* values, the request still returns a bundle, and no entry of heatmap_values
\* or stations_avg is undefined.
C9_UndefinedMeansHandled ==
    (locals.reached /\ (\/ HasAllNullGroup(locals.filtered_city_day, "city")
                        \/ HasAllNullGroup(locals.filtered_station_day, "station"))) =>
        /\ Ok
        /\ \A i \in DOMAIN response.heatmap_values : ~IsNull(response.heatmap_values[i])
        /\ \A i \in DOMAIN response.stations_avg : ~IsNull(response.stations_avg[i])
        /\ Len(response.heatmap_colors) = Len(response.heatmap_values)

\* C10: after any sequence of requests the three shared tables are as they
\* were loaded, and a request gets the response an earlier request with the
\* same parameters got, whatever was served in between.
C10_TablesUnchangedAndRepeatable ==
    /\ <<city_day, station_day, risk_scores>> = loaded
    /\ (memo.set /\ Served /\ request = memo.request) => response = memo.response

C10_Witness ==
    /\ memo.set /\ memo.between
    /\ Served /\ Ok
    /\ request = memo.request
    /\ locals.filtered_city_day # <<>>
    /\ locals.filtered_station_day # <<>>
    /\ response.risks_list # <<>>

=============================================================================
